---- MODULE Spec2Model ----
(***************************************************************************)
(* License-log ingestion pipeline: scripts/log_archiver.py and             *)
(* scripts/redis_consumer.py.                                              *)
(*                                                                         *)
(* One orchestrator process runs main() again and again against the same   *)
(* log directory, SQLite store, progress tracker file and Redis list.      *)
(* A run is cut into the steps at which it touches something durable, so   *)
(* that a process kill can fall between any two of them.  One consumer     *)
(* process pops the Redis list.                                            *)
(*                                                                         *)
(*   Spec          the orchestrator alone                                  *)
(*   TrackerSpec   the orchestrator, with the tracker file also written    *)
(*                 from outside                                            *)
(*   ConsumerSpec  the consumer alone, the list filled by any producer     *)
(*   ConsumerLiveSpec  the same, with the backoff sleep coming to an end   *)
(*   PipeSpec      the orchestrator and the consumer side by side          *)
(*   ParserSpec    parse_log_line applied to one line                      *)
(***************************************************************************)
EXTENDS Integers, Sequences, FiniteSets, TLC

(***************************************************************************)
(* Bounds of the exploration.                                              *)
(***************************************************************************)
MaxRuns == 2      \* invocations of main()
MaxFaults == 2    \* injected failures (I/O errors, kills) over the whole history
MaxChanges == 1   \* rewrites of a log file between two runs
MaxForeign == 2   \* messages put on the list by other producers

(***************************************************************************)
(* Text.  A log line is kept as the tokens the regular expressions look    *)
(* for; a token the text does not hold is "".  nl says whether the line    *)
(* ends in "\n" (the last line of a file may not).                         *)
(***************************************************************************)
TextLine(ts, level, comp, lic, user, ip, kw, nl) ==
  [ts |-> ts, level |-> level, comp |-> comp, lic |-> lic,
   user |-> user, ip |-> ip, kw |-> kw, nl |-> nl]

LineGrant == TextLine("2024/01/15 09:30:00:123", "E", "LICENSE_SVC",
                      "MATLAB", "user1", "192.168.1.10", "Grant", TRUE)
LineGrantEof == [LineGrant EXCEPT !.nl = FALSE]
LineDenied == TextLine("2024/01/15 09:31:07:004", "W", "LICENSE_SVC",
                       "", "", "", "not granted", TRUE)
LineNoKeyword == TextLine("2024/01/15 09:32:00:000", "I", "LICENSE_SVC",
                          "MATLAB", "user1", "", "", TRUE)
LineBlank == TextLine("", "", "", "", "", "", "", TRUE)

\* The file bodies a log file may hold: nothing that matches, two different
\* events, the same event twice.
BodyNoMatch == <<LineBlank, LineNoKeyword>>
BodyTwoEvents == <<LineGrant, LineDenied>>
BodyRepeated == <<LineGrant, LineGrantEof>>

\* What a rewrite of a log file turns its body into.
Rewritten(body) ==
  IF body = BodyNoMatch THEN BodyTwoEvents
  ELSE IF body = BodyTwoEvents THEN BodyRepeated
  ELSE BodyNoMatch

\* Directory entries, in the order sorted() gives them.
NameOrder == <<"a.log", "b.log", "c.txt">>
AllNames == {NameOrder[i] : i \in 1..Len(NameOrder)}
EndsWithLog(f) == f \in {"a.log", "b.log"}
LogNames == {f \in AllNames : EndsWithLog(f)}
OtherBody == <<LineGrant>>

NameRank(f) == CHOOSE i \in 1..Len(NameOrder) : NameOrder[i] = f

RECURSIVE Sorted(_)
Sorted(S) ==
  IF S = {} THEN <<>>
  ELSE LET m == CHOOSE x \in S : \A y \in S : NameRank(x) <= NameRank(y)
       IN <<m>> \o Sorted(S \ {m})

Range(s) == {s[i] : i \in 1..Len(s)}

(***************************************************************************)
(* sha1_hex, parse_log_line                                                *)
(***************************************************************************)
\* line.strip() is empty
IsBlank(line) ==
  /\ line.ts = "" /\ line.level = "" /\ line.comp = ""
  /\ line.lic = "" /\ line.user = "" /\ line.ip = "" /\ line.kw = ""

\* line.rstrip("\n")
RStripNewline(line) == [line EXCEPT !.nl = FALSE]

\* A digest is modelled by the text it digests: equal texts, equal digests,
\* and no collisions.
sha1_hex(s) == <<"sha1", s>>

NoMatch == [nomatch |-> TRUE]

LOG_PATTERN_matches(line) ==
  /\ line.ts # "" /\ line.level # "" /\ line.comp # "" /\ line.kw # ""

OrUnknown(token) == IF token = "" THEN "Unknown" ELSE token

parse_log_line(line) ==
  IF ~LOG_PATTERN_matches(line) THEN NoMatch
  ELSE [timestamp |-> line.ts,
        log_level |-> line.level,
        component |-> line.comp,
        action |-> line.kw,
        license_type |-> OrUnknown(line.lic),
        user_name |-> OrUnknown(line.user),
        client_ip |-> OrUnknown(line.ip),
        raw_message |-> RStripNewline(line)]

\* entry["raw_hash"] = sha1_hex(entry["raw_message"])
WithHash(entry) ==
  [timestamp |-> entry.timestamp,
   log_level |-> entry.log_level,
   component |-> entry.component,
   action |-> entry.action,
   license_type |-> entry.license_type,
   user_name |-> entry.user_name,
   client_ip |-> entry.client_ip,
   raw_message |-> entry.raw_message,
   raw_hash |-> sha1_hex(entry.raw_message)]

\* The read loop of process_log_file: blank lines and NoMatch are skipped.
RECURSIVE ParseLines(_)
ParseLines(lines) ==
  IF lines = <<>> THEN <<>>
  ELSE LET line == Head(lines)
           rest == ParseLines(Tail(lines))
       IN IF IsBlank(line) THEN rest
          ELSE IF parse_log_line(line) = NoMatch THEN rest
          ELSE <<WithHash(parse_log_line(line))>> \o rest

\* The raw lines of a file body that match the pattern.
MatchingLines(lines) ==
  {lines[i] : i \in {j \in 1..Len(lines) :
                       ~IsBlank(lines[j]) /\ LOG_PATTERN_matches(lines[j])}}

(***************************************************************************)
(* The logs table: INSERT OR IGNORE under raw_hash UNIQUE                  *)
(***************************************************************************)
Hashes(rows) == {rows[i].raw_hash : i \in 1..Len(rows)}

\* A plain INSERT, as if raw_hash were not UNIQUE.
InsertPlain(rows, e) == Append(rows, e)

InsertOrIgnore(rows, e) ==
  IF e.raw_hash \in Hashes(rows) THEN rows ELSE Append(rows, e)

\* executemany over the first k tuples of the batch
RECURSIVE ExecuteMany(_, _, _)
ExecuteMany(rows, batch, k) ==
  IF k = 0 THEN rows
  ELSE InsertOrIgnore(ExecuteMany(rows, batch, k - 1), batch[k])

(***************************************************************************)
(* json.dumps(e): the keys of the dict in insertion order                  *)
(***************************************************************************)
JsonDumps(e) ==
  << <<"timestamp", e.timestamp>>,
     <<"log_level", e.log_level>>,
     <<"component", e.component>>,
     <<"action", e.action>>,
     <<"license_type", e.license_type>>,
     <<"user_name", e.user_name>>,
     <<"client_ip", e.client_ip>>,
     <<"raw_message", e.raw_message>>,
     <<"raw_hash", e.raw_hash>> >>

JsonKeys(msg) == {msg[i][1] : i \in 1..Len(msg)}

\* The value of a key of a queued message.
Field(msg, key) == msg[CHOOSE i \in 1..Len(msg) : msg[i][1] = key][2]

(***************************************************************************)
(* The progress tracker file                                               *)
(***************************************************************************)
TrackerAbsent == [kind |-> "absent", names |-> <<>>]
TrackerBroken == [kind |-> "unparseable", names |-> <<>>]
TrackerList(names) == [kind |-> "list", names |-> names]
\* JSON that is not a list: a falsy value (null, 0, "", {}), a non-zero
\* number, an object with the given keys.
TrackerFalsy == [kind |-> "falsy", names |-> <<>>]
TrackerNumber == [kind |-> "number", names |-> <<>>]
TrackerObject(keys) == [kind |-> "object", names |-> keys]

\* The value load_parsed_files returns is kept as two things: the names a
\* membership test finds in it, and its Python type (LoadedType).
load_parsed_files(t) ==
  IF t.kind = "absent" THEN <<>>
  ELSE IF t.kind \in {"list", "object"} THEN t.names   \* json.load(f) or []
  ELSE <<>>

\* "list", or the type of the truthy non-list value json.load gave.
LoadedType(frc, t) ==
  IF frc THEN "list"
  ELSE IF t.kind \in {"number", "object"} THEN t.kind
  ELSE "list"

\* json.dump(parsed_files, f): a list is written as a list, a dict as an object.
Dumped(pf, type) ==
  IF type = "list" THEN TrackerList(pf) ELSE [kind |-> type, names |-> pf]

\* The force flag forgotten.
InitialParsedFilesLoaded(frc, t) == load_parsed_files(t)

\* parsed_files = [] if args.force else load_parsed_files()
InitialParsedFiles(frc, t) == IF frc THEN <<>> ELSE load_parsed_files(t)

\* The tracker never consulted.
SkipsNothing(f, pf, frc) == FALSE

\* if log_file in parsed_files and not args.force: continue
Skips(f, pf, frc) == f \in Range(pf) /\ ~frc

\* ">= 0" for "> 0".
MarksCompleteAlways(count) == count >= 0

\* if parsed_count > 0
MarksComplete(count) == count > 0

\* The pushed count returned for the parsed count.
ReturnPushed(batch, pushed) == pushed

\* return len(parsed)
ReturnCount(batch, pushed) == Len(batch)

\* The error path returning the parsed count.
ErrorCountParsed(batch) == Len(batch)

\* except Exception: ... return 0
ErrorCount(batch) == 0

\* The count test of connect_db left out.
InsertMetaRowAlways(m) == m + 1

\* SELECT COUNT(*) FROM meta; if it is 0, INSERT the schema version; commit
EnsureMetaRow(m) == IF m = 0 THEN m + 1 ELSE m

\* LPUSH: the message put at the head of the list.
lpush(q, msg) == <<msg>> \o q

\* RPUSH: the message put at the tail of the list.
rpush(q, msg) == Append(q, msg)

VARIABLES
  files,         \* the log directory: file name -> lines
  store,         \* committed rows of the logs table, in id order
  meta,          \* number of rows in the meta table
  tracker,       \* the parsed-tracker file
  queue,         \* the Redis list, head first
  pc,            \* where main() is; "idle" between runs
  force,         \* args.force
  parsed_files,  \* main's list of completed files
  total_parsed,
  redis_conn,    \* TRUE when get_redis_connection returned a connection
  all_logs,
  idx,           \* position of the for loop in all_logs
  parsed,        \* process_log_file's list of entries
  pending,       \* rows inserted in the open transaction, not committed
  pidx,          \* position of the push loop in parsed
  pushed_count,
  parsed_count,  \* what process_log_file returned
  summary,       \* the count in the final log line, -1 when none was logged
  outcome,       \* how the last run ended
  runs, faults, changes,
  parsed_type,   \* Python type of parsed_files: "list", "number", "object"
  \* redis_consumer.py
  cpc,           \* where the consumer is; "off" until it is started
  data,          \* the value blpop returned, while it is being handled
  clog,          \* the last message the consumer logged
  \* parse_log_line on its own
  input_line,    \* the line given to parse_log_line
  returned,      \* what it returned
  \* History, kept for the properties only; no action reads it.
  ingested,      \* matching raw lines of every file body read so far
  tracker0,      \* the tracker file as the current run found it
  results,       \* this run's process_log_file calls: file, how it went
  runMarks,      \* files this run appended to parsed_files, as it read them
  savedMarks,    \* the same, for the names in the tracker file
  attempts,      \* positions of parsed given to rpush in this call, in order
  failed,        \* positions of parsed whose rpush raised in this call
  rpushCalls,    \* rpush calls of this run
  zeroIn,        \* per file: whether its last parse gave nothing, and in what run
  completions,   \* per file: times marked complete while clean
  clean,         \* every run so far was unforced and ended normally
  published,     \* every message an rpush call put on the list, in call order
  handled,       \* the events process_event was called with, in call order
  cause,         \* what made the consumer's last blpop or handling end as it did
  interrupted,   \* the consumer was sent an interrupt signal
  foreign        \* messages other producers put on the list

progVars == <<files, store, meta, tracker, queue, pc, force, parsed_files,
              total_parsed, redis_conn, all_logs, idx, parsed, pending, pidx,
              pushed_count, parsed_count, summary, outcome, runs, faults, changes>>

runHist == <<results, runMarks, attempts, failed, rpushCalls>>
longHist == <<ingested, tracker0, savedMarks, zeroIn>>
cleanHist == <<completions, clean>>

consVars == <<cpc, data, clog, handled, cause, interrupted, foreign>>
parseVars == <<input_line, returned>>
apartVars == <<consVars, parseVars>>

\* Everything of the orchestrator but the Redis list.
archVars == <<files, store, meta, tracker, pc, force, parsed_files,
              total_parsed, redis_conn, all_logs, idx, parsed, pending, pidx,
              pushed_count, parsed_count, summary, outcome, runs, faults,
              changes, parsed_type, runHist, longHist, cleanHist>>

vars == <<progVars, runHist, longHist, cleanHist, parsed_type, published,
          apartVars>>

NoSummary == 0 - 1

NoMark == [body |-> <<>>, redis |-> FALSE, attempts |-> <<>>, failed |-> {}]
NoMarks == [f \in AllNames |-> NoMark]
NoCompletions == [f \in AllNames |-> 0]

\* Number of lines of a body that are not blank and match the pattern.
NumMatching(lines) ==
  Cardinality({j \in 1..Len(lines) :
                 ~IsBlank(lines[j]) /\ LOG_PATTERN_matches(lines[j])})

ZeroThisRun(f) ==
  \E i \in 1..Len(results) : results[i].file = f /\ results[i].tag = "empty"

Result(f, tag, n, added, carried) ==
  [file |-> f, tag |-> tag, n |-> n, added |-> added, carried |-> carried]

NotParsed == [unparsed |-> TRUE]
NoData == <<>>

\* The orchestrator has never run.
InitArchiver ==
  /\ files = [f \in AllNames |->
                IF f = "a.log" THEN BodyNoMatch
                ELSE IF f = "b.log" THEN BodyRepeated
                ELSE OtherBody]
  /\ store = <<>>
  /\ meta = 0
  /\ tracker = TrackerAbsent
  /\ queue = <<>>
  /\ pc = "idle"
  /\ force = FALSE
  /\ parsed_files = <<>>
  /\ total_parsed = 0
  /\ redis_conn = FALSE
  /\ all_logs = <<>>
  /\ idx = 1
  /\ parsed = <<>>
  /\ pending = <<>>
  /\ pidx = 1
  /\ pushed_count = 0
  /\ parsed_count = 0
  /\ summary = NoSummary
  /\ outcome = "none"
  /\ runs = 0
  /\ faults = 0
  /\ changes = 0
  /\ ingested = {}
  /\ tracker0 = TrackerAbsent
  /\ results = <<>>
  /\ runMarks = NoMarks
  /\ savedMarks = NoMarks
  /\ attempts = <<>>
  /\ failed = {}
  /\ rpushCalls = 0
  /\ zeroIn = [f \in AllNames |-> "no"]
  /\ completions = NoCompletions
  /\ clean = TRUE
  /\ parsed_type = "list"
  /\ published = <<>>

\* The consumer has not been started.
InitConsumer ==
  /\ cpc = "off"
  /\ data = NoData
  /\ clog = "none"
  /\ handled = <<>>
  /\ cause = "none"
  /\ interrupted = FALSE
  /\ foreign = 0

Init ==
  /\ InitArchiver
  /\ InitConsumer
  /\ input_line = LineBlank
  /\ returned = NotParsed

CanFail == faults < MaxFaults

\* The process is gone: its locals are forgotten, the open transaction is
\* rolled back.
ProcessEnds(how) ==
  /\ pc' = "idle"
  /\ outcome' = how
  /\ force' = FALSE
  /\ parsed_files' = <<>>
  /\ total_parsed' = 0
  /\ redis_conn' = FALSE
  /\ all_logs' = <<>>
  /\ idx' = 1
  /\ parsed' = <<>>
  /\ pending' = <<>>
  /\ pidx' = 1
  /\ pushed_count' = 0
  /\ parsed_count' = 0
  /\ parsed_type' = "list"
  /\ results' = <<>>
  /\ runMarks' = NoMarks
  /\ attempts' = <<>>
  /\ failed' = {}
  /\ rpushCalls' = 0
  /\ clean' = (clean /\ how = "finished")
  /\ completions' = IF clean /\ how = "finished" THEN completions
                    ELSE NoCompletions

(***************************************************************************)
(* The environment                                                         *)
(***************************************************************************)
\* A log file is rewritten between two runs.
FileChange(f) ==
  /\ pc = "idle"
  /\ changes < MaxChanges
  /\ 0 < runs /\ runs < MaxRuns
  /\ files' = [files EXCEPT ![f] = Rewritten(files[f])]
  /\ changes' = changes + 1
  /\ UNCHANGED <<store, meta, tracker, queue, pc, force, parsed_files,
                 total_parsed, redis_conn, all_logs, idx, parsed, pending, pidx,
                 pushed_count, parsed_count, summary, outcome, runs, faults>>
  /\ UNCHANGED <<runHist, longHist, cleanHist>>
  /\ UNCHANGED <<parsed_type, published, apartVars>>

(***************************************************************************)
(* main()                                                                  *)
(***************************************************************************)
\* args = parser.parse_args(); conn = connect_db();
\* parsed_files = [] if args.force else load_parsed_files(); total_parsed = 0
StartRun(frc) ==
  /\ pc = "idle"
  /\ runs < MaxRuns
  /\ runs' = runs + 1
  /\ force' = frc
  /\ meta' = EnsureMetaRow(meta)
  /\ parsed_files' = InitialParsedFiles(frc, tracker)
  /\ total_parsed' = 0
  /\ pc' = "check_dir"
  /\ summary' = NoSummary
  /\ outcome' = "running"
  /\ tracker0' = tracker
  /\ clean' = (clean /\ ~frc)
  /\ completions' = IF clean /\ ~frc THEN completions ELSE NoCompletions
  /\ UNCHANGED <<files, store, tracker, queue, redis_conn, all_logs, idx,
                 parsed, pending, pidx, pushed_count, parsed_count, faults,
                 changes>>
  /\ UNCHANGED <<runHist, ingested, savedMarks, zeroIn>>
  /\ parsed_type' = LoadedType(frc, tracker)
  /\ UNCHANGED <<published, apartVars>>

\* sqlite3.connect or a CREATE raises in connect_db: nothing catches it.
StartRunStoreFails(frc) ==
  /\ pc = "idle"
  /\ runs < MaxRuns
  /\ CanFail
  /\ runs' = runs + 1
  /\ faults' = faults + 1
  /\ summary' = NoSummary
  /\ tracker0' = tracker
  /\ ProcessEnds("store_unavailable")
  /\ UNCHANGED <<files, store, meta, tracker, queue, changes>>
  /\ UNCHANGED <<ingested, savedMarks, zeroIn>>
  /\ UNCHANGED <<published, apartVars>>

\* if not os.path.exists(LOG_DIRECTORY): return
DirMissing ==
  /\ pc = "check_dir"
  /\ CanFail
  /\ faults' = faults + 1
  /\ ProcessEnds("no_directory")
  /\ UNCHANGED <<files, store, meta, tracker, queue, summary, runs, changes>>
  /\ UNCHANGED longHist
  /\ UNCHANGED <<published, apartVars>>

\* redis_conn = get_redis_connection()
\* all_logs = sorted([f for f in os.listdir(...) if f.endswith(".log")])
ListDir(ok) ==
  /\ pc = "check_dir"
  /\ redis_conn' = ok
  /\ all_logs' = Sorted({f \in DOMAIN files : EndsWithLog(f)})
  /\ idx' = 1
  /\ pc' = "loop"
  /\ UNCHANGED <<files, store, meta, tracker, queue, force, parsed_files,
                 total_parsed, parsed, pending, pidx, pushed_count,
                 parsed_count, summary, outcome, runs, faults, changes>>
  /\ UNCHANGED <<runHist, longHist, cleanHist>>
  /\ UNCHANGED <<parsed_type, published, apartVars>>

\* os.listdir raises: nothing catches it.
ListDirFails ==
  /\ pc = "check_dir"
  /\ CanFail
  /\ faults' = faults + 1
  /\ ProcessEnds("listdir_error")
  /\ UNCHANGED <<files, store, meta, tracker, queue, summary, runs, changes>>
  /\ UNCHANGED longHist
  /\ UNCHANGED <<published, apartVars>>

\* for log_file in all_logs: ... continue
SkipFile ==
  /\ pc = "loop"
  /\ idx <= Len(all_logs)
  /\ parsed_type # "number"
  /\ Skips(all_logs[idx], parsed_files, force)
  /\ idx' = idx + 1
  /\ UNCHANGED <<files, store, meta, tracker, queue, pc, force, parsed_files,
                 total_parsed, redis_conn, all_logs, parsed, pending, pidx,
                 pushed_count, parsed_count, summary, outcome, runs, faults,
                 changes>>
  /\ UNCHANGED <<runHist, longHist, cleanHist>>
  /\ UNCHANGED <<parsed_type, published, apartVars>>

\* process_log_file: the read loop, then "if not parsed: return 0"
ReadFile ==
  /\ pc = "loop"
  /\ idx <= Len(all_logs)
  /\ parsed_type # "number"
  /\ ~Skips(all_logs[idx], parsed_files, force)
  /\ LET f == all_logs[idx]
         batch == ParseLines(files[f])
     IN /\ parsed' = batch
        /\ ingested' = ingested \cup MatchingLines(files[f])
        /\ IF batch = <<>>
           THEN /\ parsed_count' = 0
                /\ pc' = "returned"
                /\ results' = Append(results, Result(f, "empty", NumMatching(files[f]), 0, 0))
                /\ zeroIn' = [zeroIn EXCEPT ![f] =
                                IF force THEN "forced" ELSE "unforced"]
           ELSE /\ parsed_count' = parsed_count
                /\ pc' = "insert"
                /\ results' = results
                /\ zeroIn' = [zeroIn EXCEPT ![f] = "no"]
  /\ pidx' = 1
  /\ pushed_count' = 0
  /\ attempts' = <<>>
  /\ failed' = {}
  /\ UNCHANGED <<files, store, meta, tracker, queue, force, parsed_files,
                 total_parsed, redis_conn, all_logs, idx, pending, summary,
                 outcome, runs, faults, changes>>
  /\ UNCHANGED <<runMarks, rpushCalls, tracker0, savedMarks, cleanHist>>
  /\ UNCHANGED <<parsed_type, published, apartVars>>

\* The read error leaving main, as if process_log_file had no except clause.
ReadFileFailsEscapes ==
  /\ pc = "loop"
  /\ idx <= Len(all_logs)
  /\ parsed_type # "number"
  /\ ~Skips(all_logs[idx], parsed_files, force)
  /\ CanFail
  /\ faults' = faults + 1
  /\ ProcessEnds("file_error")
  /\ UNCHANGED <<files, store, meta, tracker, queue, summary, runs, changes>>
  /\ UNCHANGED longHist
  /\ UNCHANGED <<published, apartVars>>

\* open() or the read raises: except Exception, return 0
ReadFileFails ==
  /\ pc = "loop"
  /\ idx <= Len(all_logs)
  /\ parsed_type # "number"
  /\ ~Skips(all_logs[idx], parsed_files, force)
  /\ CanFail
  /\ faults' = faults + 1
  /\ parsed' = <<>>
  /\ parsed_count' = ErrorCount(<<>>)
  /\ pidx' = 1
  /\ pushed_count' = 0
  /\ attempts' = <<>>
  /\ failed' = {}
  /\ pc' = "returned"
  /\ results' = Append(results, Result(all_logs[idx], "read_error", 0, 0, 0))
  /\ UNCHANGED <<files, store, meta, tracker, queue, force, parsed_files,
                 total_parsed, redis_conn, all_logs, idx, pending, summary,
                 outcome, runs, changes>>
  /\ UNCHANGED <<runMarks, rpushCalls, longHist, cleanHist>>
  /\ UNCHANGED <<parsed_type, published, apartVars>>

\* cur.executemany(INSERT OR IGNORE ...); conn.commit()
InsertBatch ==
  /\ pc = "insert"
  /\ store' = ExecuteMany(ExecuteMany(store, pending, Len(pending)),
                          parsed, Len(parsed))
  /\ pending' = <<>>
  /\ IF redis_conn
     THEN /\ pc' = "push"
          /\ parsed_count' = parsed_count
     ELSE /\ pc' = "returned"
          /\ parsed_count' = ReturnCount(parsed, pushed_count)
  /\ results' = Append(results,
                  Result(all_logs[idx], "ok", NumMatching(files[all_logs[idx]]),
                         Len(store') - Len(store), Len(pending)))
  /\ UNCHANGED <<files, meta, tracker, queue, force, parsed_files,
                 total_parsed, redis_conn, all_logs, idx, parsed, pidx,
                 pushed_count, summary, outcome, runs, faults, changes>>
  /\ UNCHANGED <<runMarks, attempts, failed, rpushCalls, longHist, cleanHist>>
  /\ UNCHANGED <<parsed_type, published, apartVars>>

\* The store error caught around the archive step alone, the function going
\* on to the push.
InsertBatchFailsPublishes(k) ==
  /\ pc = "insert"
  /\ CanFail
  /\ faults' = faults + 1
  /\ k \in 0..Len(parsed)
  /\ pending' = pending \o SubSeq(parsed, 1, k)
  /\ IF redis_conn
     THEN /\ pc' = "push"
          /\ parsed_count' = parsed_count
     ELSE /\ pc' = "returned"
          /\ parsed_count' = ReturnCount(parsed, pushed_count)
  /\ results' = Append(results,
                  Result(all_logs[idx], "write_error",
                         NumMatching(files[all_logs[idx]]), 0, Len(pending)))
  /\ UNCHANGED <<files, store, meta, tracker, queue, force, parsed_files,
                 total_parsed, redis_conn, all_logs, idx, parsed, pidx,
                 pushed_count, summary, outcome, runs, changes>>
  /\ UNCHANGED <<runMarks, attempts, failed, rpushCalls, longHist, cleanHist>>
  /\ UNCHANGED <<parsed_type, published, apartVars>>

\* executemany raises after k tuples (k < len), or commit raises (k = len):
\* the k rows stay in the open transaction; except Exception, return 0
InsertBatchFails(k) ==
  /\ pc = "insert"
  /\ CanFail
  /\ faults' = faults + 1
  /\ k \in 0..Len(parsed)
  /\ pending' = pending \o SubSeq(parsed, 1, k)
  /\ parsed_count' = ErrorCount(parsed)
  /\ pc' = "returned"
  /\ results' = Append(results,
                  Result(all_logs[idx], "write_error",
                         NumMatching(files[all_logs[idx]]), 0, Len(pending)))
  /\ UNCHANGED <<files, store, meta, tracker, queue, force, parsed_files,
                 total_parsed, redis_conn, all_logs, idx, parsed, pidx,
                 pushed_count, summary, outcome, runs, changes>>
  /\ UNCHANGED <<runMarks, attempts, failed, rpushCalls, longHist, cleanHist>>
  /\ UNCHANGED <<parsed_type, published, apartVars>>

\* redis_conn.rpush(REDIS_QUEUE_NAME, json.dumps(e)); pushed_count += 1
PushEvent ==
  /\ pc = "push"
  /\ pidx <= Len(parsed)
  /\ queue' = rpush(queue, JsonDumps(parsed[pidx]))
  /\ pushed_count' = pushed_count + 1
  /\ pidx' = pidx + 1
  /\ attempts' = Append(attempts, pidx)
  /\ rpushCalls' = rpushCalls + 1
  /\ UNCHANGED <<files, store, meta, tracker, pc, force, parsed_files,
                 total_parsed, redis_conn, all_logs, idx, parsed, pending,
                 parsed_count, summary, outcome, runs, faults, changes>>
  /\ UNCHANGED <<results, runMarks, failed, longHist, cleanHist>>
  /\ published' = Append(published, JsonDumps(parsed[pidx]))
  /\ UNCHANGED <<parsed_type, apartVars>>

\* The rpush error reaching the outer except clause, as if the loop had no
\* try of its own.
PushEventFailsEscapes ==
  /\ pc = "push"
  /\ pidx <= Len(parsed)
  /\ CanFail
  /\ faults' = faults + 1
  /\ attempts' = Append(attempts, pidx)
  /\ failed' = failed \cup {pidx}
  /\ rpushCalls' = rpushCalls + 1
  /\ parsed_count' = ErrorCount(parsed)
  /\ pc' = "returned"
  /\ UNCHANGED <<files, store, meta, tracker, queue, force, parsed_files,
                 total_parsed, redis_conn, all_logs, idx, parsed, pending,
                 pidx, pushed_count, summary, outcome, runs, changes>>
  /\ UNCHANGED <<results, runMarks, longHist, cleanHist>>
  /\ UNCHANGED <<parsed_type, published, apartVars>>

\* rpush raises: except Exception, logging.debug, next event
PushEventFails ==
  /\ pc = "push"
  /\ pidx <= Len(parsed)
  /\ CanFail
  /\ faults' = faults + 1
  /\ pidx' = pidx + 1
  /\ attempts' = Append(attempts, pidx)
  /\ failed' = failed \cup {pidx}
  /\ rpushCalls' = rpushCalls + 1
  /\ UNCHANGED <<files, store, meta, tracker, queue, pc, force, parsed_files,
                 total_parsed, redis_conn, all_logs, idx, parsed, pending,
                 pushed_count, parsed_count, summary, outcome, runs, changes>>
  /\ UNCHANGED <<results, runMarks, longHist, cleanHist>>
  /\ UNCHANGED <<parsed_type, published, apartVars>>

\* The return inside the loop body.
PushDoneEarly ==
  /\ pc = "push"
  /\ parsed_count' = ReturnCount(parsed, pushed_count)
  /\ pc' = "returned"
  /\ UNCHANGED <<files, store, meta, tracker, queue, force, parsed_files,
                 total_parsed, redis_conn, all_logs, idx, parsed, pending,
                 pidx, pushed_count, summary, outcome, runs, faults, changes>>
  /\ UNCHANGED <<runHist, longHist, cleanHist>>
  /\ UNCHANGED <<parsed_type, published, apartVars>>

\* the push loop is over: return len(parsed)
PushDone ==
  /\ pc = "push"
  /\ pidx > Len(parsed)
  /\ parsed_count' = ReturnCount(parsed, pushed_count)
  /\ pc' = "returned"
  /\ UNCHANGED <<files, store, meta, tracker, queue, force, parsed_files,
                 total_parsed, redis_conn, all_logs, idx, parsed, pending,
                 pidx, pushed_count, summary, outcome, runs, faults, changes>>
  /\ UNCHANGED <<runHist, longHist, cleanHist>>
  /\ UNCHANGED <<parsed_type, published, apartVars>>

\* The tracker file saved after each file instead of once after the loop.
AfterFileSaves ==
  /\ pc = "returned"
  /\ LET f == all_logs[idx]
     IN IF MarksComplete(parsed_count)
        THEN /\ parsed_files' = Append(parsed_files, f)
             /\ total_parsed' = total_parsed + parsed_count
             /\ runMarks' = [runMarks EXCEPT ![f] =
                               [body |-> files[f], redis |-> redis_conn,
                                attempts |-> attempts, failed |-> failed]]
             /\ completions' = IF clean
                               THEN [completions EXCEPT ![f] = @ + 1]
                               ELSE completions
        ELSE UNCHANGED <<parsed_files, total_parsed, runMarks, completions>>
  /\ tracker' = Dumped(parsed_files', parsed_type)
  /\ idx' = idx + 1
  /\ pc' = "loop"
  /\ UNCHANGED <<files, store, meta, queue, force, redis_conn,
                 all_logs, parsed, pending, pidx, pushed_count, parsed_count,
                 summary, outcome, runs, faults, changes>>
  /\ UNCHANGED <<results, attempts, failed, rpushCalls, longHist, clean>>
  /\ UNCHANGED <<parsed_type, published, apartVars>>

\* if parsed_count > 0: parsed_files.append(log_file); total_parsed += ...
AfterFile ==
  /\ pc = "returned"
  /\ MarksComplete(parsed_count) => parsed_type = "list"
  /\ LET f == all_logs[idx]
     IN IF MarksComplete(parsed_count)
        THEN /\ parsed_files' = Append(parsed_files, f)
             /\ total_parsed' = total_parsed + parsed_count
             /\ runMarks' = [runMarks EXCEPT ![f] =
                               [body |-> files[f], redis |-> redis_conn,
                                attempts |-> attempts, failed |-> failed]]
             /\ completions' = IF clean
                               THEN [completions EXCEPT ![f] = @ + 1]
                               ELSE completions
        ELSE UNCHANGED <<parsed_files, total_parsed, runMarks, completions>>
  /\ idx' = idx + 1
  /\ pc' = "loop"
  /\ UNCHANGED <<files, store, meta, tracker, queue, force, redis_conn,
                 all_logs, parsed, pending, pidx, pushed_count, parsed_count,
                 summary, outcome, runs, faults, changes>>
  /\ UNCHANGED <<results, attempts, failed, rpushCalls, longHist, clean>>
  /\ UNCHANGED <<parsed_type, published, apartVars>>

\* save_parsed_files(parsed_files)
SaveParsedFiles ==
  /\ pc = "loop"
  /\ idx > Len(all_logs)
  /\ tracker' = Dumped(parsed_files, parsed_type)
  /\ pc' = "close"
  /\ savedMarks' = [f \in AllNames |->
                      IF f \notin Range(parsed_files) THEN NoMark
                      ELSE IF runMarks[f] # NoMark THEN runMarks[f]
                      ELSE savedMarks[f]]
  /\ zeroIn' = [f \in AllNames |->
                  IF zeroIn[f] = "forced" /\ force /\ ZeroThisRun(f)
                  THEN "forced_saved"
                  ELSE zeroIn[f]]
  /\ UNCHANGED <<files, store, meta, queue, force, parsed_files,
                 total_parsed, redis_conn, all_logs, idx, parsed, pending, pidx,
                 pushed_count, parsed_count, summary, outcome, runs, faults,
                 changes>>
  /\ UNCHANGED <<runHist, ingested, tracker0, cleanHist>>
  /\ UNCHANGED <<parsed_type, published, apartVars>>

\* makedirs or open raises (the file is as it was), or the write raises
\* after open(..., "w") truncated it: nothing catches it.
SaveParsedFilesFails(truncated) ==
  /\ pc = "loop"
  /\ idx > Len(all_logs)
  /\ CanFail
  /\ faults' = faults + 1
  /\ tracker' = IF truncated THEN TrackerBroken ELSE tracker
  /\ savedMarks' = IF truncated THEN NoMarks ELSE savedMarks
  /\ ProcessEnds("save_error")
  /\ UNCHANGED <<files, store, meta, queue, summary, runs, changes>>
  /\ UNCHANGED <<ingested, tracker0, zeroIn>>
  /\ UNCHANGED <<published, apartVars>>

\* The process is killed inside save_parsed_files, after open(..., "w")
\* truncated the file and before the list is written out.
KillDuringSave ==
  /\ pc = "loop"
  /\ idx > Len(all_logs)
  /\ CanFail
  /\ faults' = faults + 1
  /\ tracker' = TrackerBroken
  /\ savedMarks' = NoMarks
  /\ ProcessEnds("killed_in_save")
  /\ UNCHANGED <<files, store, meta, queue, summary, runs, changes>>
  /\ UNCHANGED <<ingested, tracker0, zeroIn>>
  /\ UNCHANGED <<published, apartVars>>

\* conn.close(); logging.info("Log archival complete: ...")
CloseAndReport ==
  /\ pc = "close"
  /\ pending' = <<>>
  /\ summary' = total_parsed
  /\ pc' = "done"
  /\ UNCHANGED <<files, store, meta, tracker, queue, force, parsed_files,
                 total_parsed, redis_conn, all_logs, idx, parsed, pidx,
                 pushed_count, parsed_count, outcome, runs, faults, changes>>
  /\ UNCHANGED <<runHist, longHist, cleanHist>>
  /\ UNCHANGED <<parsed_type, published, apartVars>>

\* main returns and the interpreter exits.
Exit ==
  /\ pc = "done"
  /\ ProcessEnds("finished")
  /\ UNCHANGED <<files, store, meta, tracker, queue, summary, runs, faults,
                 changes>>
  /\ UNCHANGED longHist
  /\ UNCHANGED <<published, apartVars>>

\* The process is killed between two steps.
Kill ==
  /\ pc \notin {"idle", "done"}
  /\ CanFail
  /\ faults' = faults + 1
  /\ ProcessEnds("killed")
  /\ UNCHANGED <<files, store, meta, tracker, queue, summary, runs, changes>>
  /\ UNCHANGED longHist
  /\ UNCHANGED <<published, apartVars>>

Next ==
  \/ \E f \in LogNames : FileChange(f)
  \/ \E frc \in BOOLEAN : StartRun(frc)
  \/ \E frc \in BOOLEAN : StartRunStoreFails(frc)
  \/ DirMissing
  \/ \E ok \in BOOLEAN : ListDir(ok)
  \/ ListDirFails
  \/ SkipFile
  \/ ReadFile
  \/ ReadFileFails
  \/ InsertBatch
  \/ \E k \in 0..2 : InsertBatchFails(k)
  \/ PushEvent
  \/ PushEventFails
  \/ PushDone
  \/ AfterFile
  \/ SaveParsedFiles
  \/ \E truncated \in BOOLEAN : SaveParsedFilesFails(truncated)
  \/ KillDuringSave
  \/ CloseAndReport
  \/ Exit
  \/ Kill

Spec == Init /\ [][Next]_vars

(***************************************************************************)
(* The tracker file written from outside                                   *)
(***************************************************************************)
CorruptValues ==
  {TrackerAbsent, TrackerBroken, TrackerFalsy, TrackerNumber,
   TrackerObject(<<"a.log">>)}

\* Between two runs the tracker file is deleted or overwritten.
CorruptTracker(t) ==
  /\ pc = "idle"
  /\ changes < MaxChanges
  /\ runs < MaxRuns
  /\ t # tracker
  /\ tracker' = t
  /\ savedMarks' = NoMarks
  /\ changes' = changes + 1
  /\ UNCHANGED <<files, store, meta, queue, pc, force, parsed_files,
                 total_parsed, redis_conn, all_logs, idx, parsed, pending, pidx,
                 pushed_count, parsed_count, summary, outcome, runs, faults>>
  /\ UNCHANGED <<runHist, ingested, tracker0, zeroIn, cleanHist>>
  /\ UNCHANGED <<parsed_type, published, apartVars>>

\* "log_file in parsed_files" with parsed_files a number: TypeError, which
\* nothing catches.
MembershipRaises ==
  /\ pc = "loop"
  /\ idx <= Len(all_logs)
  /\ parsed_type = "number"
  /\ ProcessEnds("tracker_type_error")
  /\ UNCHANGED <<files, store, meta, tracker, queue, summary, runs, faults,
                 changes>>
  /\ UNCHANGED longHist
  /\ UNCHANGED <<published, apartVars>>

\* "parsed_files.append(log_file)" with parsed_files a dict: AttributeError,
\* which nothing catches.
AppendRaises ==
  /\ pc = "returned"
  /\ MarksComplete(parsed_count)
  /\ parsed_type # "list"
  /\ ProcessEnds("tracker_type_error")
  /\ UNCHANGED <<files, store, meta, tracker, queue, summary, runs, faults,
                 changes>>
  /\ UNCHANGED longHist
  /\ UNCHANGED <<published, apartVars>>

TrackerNext ==
  \/ Next
  \/ \E t \in CorruptValues : CorruptTracker(t)
  \/ MembershipRaises
  \/ AppendRaises

TrackerSpec == Init /\ [][TrackerNext]_vars

(***************************************************************************)
(* redis_consumer.py                                                       *)
(*                                                                         *)
(* A list element is the text json.dumps wrote, kept as its key/value      *)
(* pairs.  Other producers may put anything on the list: no bytes at all   *)
(* (<<>>), text that is not JSON (one pair with the key ""), a JSON object *)
(* without the keys process_event reads.                                   *)
(***************************************************************************)
EmptyMessage == <<>>
NotJsonMessage == << <<"", "not json">> >>
ObjectMissingKeys == << <<"timestamp", "2024/01/15 09:30:00:123">> >>
ValidMessage == JsonDumps(WithHash(parse_log_line(LineGrant)))
ForeignMessages ==
  {EmptyMessage, NotJsonMessage, ObjectMissingKeys, ValidMessage}

\* "if data": bytes are truthy unless empty
Truthy(msg) == msg # <<>>

\* json.loads(data) returns rather than raising JSONDecodeError
IsJson(msg) == \A i \in 1..Len(msg) : msg[i][1] # ""

\* json.loads(data): the dict of the object's keys
json_loads(msg) == [k \in JsonKeys(msg) |-> Field(msg, k)]

\* process_event reads event['license_type'], event['user_name'] and
\* event['action']: KeyError when one is missing
HandlerKeys == {"license_type", "user_name", "action"}
process_event_returns(event) == HandlerKeys \subseteq DOMAIN event

\* r = redis.Redis(...); logging.info("Connected to Redis ...")
ConsumerStart ==
  /\ cpc = "off"
  /\ cpc' = "listening"
  /\ clog' = "connected"
  /\ UNCHANGED <<data, handled, cause, interrupted, foreign>>
  /\ UNCHANGED <<archVars, queue, published, parseVars>>

\* Some other producer pushes a message.
ForeignPush(msg) ==
  /\ foreign < MaxForeign
  /\ foreign' = foreign + 1
  /\ queue' = rpush(queue, msg)
  /\ published' = Append(published, msg)
  /\ UNCHANGED <<cpc, data, clog, handled, cause, interrupted>>
  /\ UNCHANGED <<archVars, parseVars>>

\* _, data = r.blpop(REDIS_QUEUE_NAME, timeout=5) returns (key, value);
\* "if data" then chooses the branch.
Blpop ==
  /\ cpc = "listening"
  /\ queue # <<>>
  /\ queue' = Tail(queue)
  /\ cause' = "data"
  /\ IF Truthy(Head(queue))
     THEN /\ cpc' = "handling"
          /\ data' = Head(queue)
     ELSE /\ cpc' = "idle_sleep"
          /\ data' = NoData
  /\ UNCHANGED <<clog, handled, interrupted, foreign>>
  /\ UNCHANGED <<archVars, published, parseVars>>

\* blpop finds the list empty for 5 seconds and returns None: the tuple
\* assignment raises TypeError, which "except Exception" takes:
\* logging.error, then time.sleep(5).
BlpopTimeout ==
  /\ cpc = "listening"
  /\ queue = <<>>
  /\ cause' = "timeout"
  /\ clog' = "error"
  /\ cpc' = "backoff"
  /\ UNCHANGED <<data, handled, interrupted, foreign>>
  /\ UNCHANGED <<archVars, queue, published, parseVars>>

\* The connection error leaving the loop, as if "except Exception" were
\* missing.
BlpopFailsEscapes ==
  /\ cpc = "listening"
  /\ cause' = "pop_failure"
  /\ cpc' = "aborted"
  /\ UNCHANGED <<data, clog, handled, interrupted, foreign>>
  /\ UNCHANGED <<archVars, queue, published, parseVars>>

\* blpop raises (no connection): except Exception, logging.error,
\* time.sleep(5)
BlpopFails ==
  /\ cpc = "listening"
  /\ cause' = "pop_failure"
  /\ clog' = "error"
  /\ cpc' = "backoff"
  /\ UNCHANGED <<data, handled, interrupted, foreign>>
  /\ UNCHANGED <<archVars, queue, published, parseVars>>

\* event = json.loads(data); process_event(event)
HandleEvent ==
  /\ cpc = "handling"
  /\ data' = NoData
  /\ IF ~IsJson(data)
     THEN /\ cause' = "deserialization"
          /\ clog' = "error"
          /\ cpc' = "backoff"
          /\ handled' = handled
     ELSE IF ~process_event_returns(json_loads(data))
     THEN /\ cause' = "handler"
          /\ clog' = "error"
          /\ cpc' = "backoff"
          /\ handled' = Append(handled, json_loads(data))
     ELSE /\ cause' = "handled"
          /\ clog' = "processing"
          /\ cpc' = "listening"
          /\ handled' = Append(handled, json_loads(data))
  /\ UNCHANGED <<interrupted, foreign>>
  /\ UNCHANGED <<archVars, queue, published, parseVars>>

\* else: time.sleep(1) is over
IdleSleepDone ==
  /\ cpc = "idle_sleep"
  /\ cpc' = "listening"
  /\ UNCHANGED <<data, clog, handled, cause, interrupted, foreign>>
  /\ UNCHANGED <<archVars, queue, published, parseVars>>

\* time.sleep(5) of the except clause is over; back to "while True"
BackoffDone ==
  /\ cpc = "backoff"
  /\ cpc' = "listening"
  /\ UNCHANGED <<data, clog, handled, cause, interrupted, foreign>>
  /\ UNCHANGED <<archVars, queue, published, parseVars>>

\* KeyboardInterrupt inside the try block (in blpop, in the handling, in
\* time.sleep(1)): logging.info("Shutting down consumer..."); break
Interrupt ==
  /\ cpc \in {"listening", "handling", "idle_sleep"}
  /\ interrupted' = TRUE
  /\ clog' = "shutdown"
  /\ cpc' = "stopped"
  /\ data' = NoData
  /\ UNCHANGED <<handled, cause, foreign>>
  /\ UNCHANGED <<archVars, queue, published, parseVars>>

\* KeyboardInterrupt inside the "except Exception" clause (in time.sleep(5)):
\* the clauses of the same try do not apply to it, it leaves main() and the
\* interpreter ends with a traceback.
InterruptInBackoff ==
  /\ cpc = "backoff"
  /\ interrupted' = TRUE
  /\ cpc' = "aborted"
  /\ UNCHANGED <<data, clog, handled, cause, foreign>>
  /\ UNCHANGED <<archVars, queue, published, parseVars>>

Consumer ==
  \/ ConsumerStart
  \/ Blpop
  \/ BlpopTimeout
  \/ BlpopFails
  \/ HandleEvent
  \/ IdleSleepDone
  \/ BackoffDone
  \/ Interrupt
  \/ InterruptInBackoff

ConsumerNext ==
  \/ Consumer
  \/ \E msg \in ForeignMessages : ForeignPush(msg)

ConsumerSpec == Init /\ [][ConsumerNext]_vars

\* time.sleep(5) returns.
ConsumerLiveSpec == ConsumerSpec /\ WF_vars(BackoffDone)

\* The orchestrator never pushes a message of no bytes, so the consumer's
\* time.sleep(1) has no part here.
PipeNext ==
  \/ Next
  \/ ConsumerStart
  \/ Blpop
  \/ BlpopTimeout
  \/ BlpopFails
  \/ HandleEvent
  \/ BackoffDone
  \/ Interrupt
  \/ InterruptInBackoff

PipeSpec == Init /\ [][PipeNext]_vars

(***************************************************************************)
(* parse_log_line on its own                                               *)
(***************************************************************************)
\* The action keyword as a line may spell it: the pattern is compiled with
\* re.IGNORECASE, and group 5 is the text as it stands in the line.
Spellings ==
  {"", "Grant", "grant", "GRANT", "Detachment", "TimeOut", "timeout",
   "not granted", "NOT GRANTED"}

SampleLines ==
  {TextLine(ts, level, comp, lic, user, ip, kw, nl) :
     ts \in {"", "2024/01/15 09:30:00:123"},
     level \in {"", "E"},
     comp \in {"", "LICENSE_SVC"},
     lic \in {"", "MATLAB"},
     user \in {"", "user1"},
     ip \in {"", "192.168.1.10"},
     kw \in Spellings,
     nl \in BOOLEAN}

ParserInit ==
  /\ InitArchiver
  /\ InitConsumer
  /\ input_line \in SampleLines
  /\ returned = NotParsed

\* entry = parse_log_line(line)
ParseLine ==
  /\ returned = NotParsed
  /\ returned' = parse_log_line(input_line)
  /\ UNCHANGED <<archVars, queue, published, consVars, input_line>>

ParserNext == ParseLine

ParserSpec == ParserInit /\ [][ParserNext]_vars

\* The interpreter goes on executing main(): a step that needs no failure is
\* eventually taken.
Advance ==
  \/ \E ok \in BOOLEAN : ListDir(ok)
  \/ SkipFile
  \/ ReadFile
  \/ InsertBatch
  \/ PushEvent
  \/ PushDone
  \/ AfterFile
  \/ SaveParsedFiles
  \/ CloseAndReport
  \/ Exit

LiveSpec == Spec /\ WF_vars(Advance)

(***************************************************************************)
(* Properties                                                              *)
(***************************************************************************)
CompletedIn(t) == IF t.kind = "list" THEN Range(t.names) ELSE {}
MarkedThisRun == {f \in AllNames : runMarks[f] # NoMark}
ResultFiles(tags) ==
  {results[i].file : i \in {j \in 1..Len(results) : results[j].tag \in tags}}
AllTags == {"empty", "read_error", "write_error", "ok"}
HashOfLine(line) == sha1_hex(RStripNewline(line))
Archived(body) ==
  \A l \in MatchingLines(body) : HashOfLine(l) \in Hashes(store)

\* C1: the logs table never holds two rows with the same fingerprint, and it
\* never holds more rows than there are distinct matching raw lines in the
\* file bodies read so far, whatever the runs were (forced, killed, repeated).
C1_StoreDeduplicated ==
  /\ \A i, j \in 1..Len(store) :
       store[i].raw_hash = store[j].raw_hash => i = j
  /\ Len(store) <= Cardinality(ingested)

\* b.log, completed by the first run, has been archived again by a forced
\* second run; its two lines are one raw message and the table holds one row.
C1_Witness ==
  /\ pc = "done" /\ force /\ runs = 2
  /\ "b.log" \in CompletedIn(tracker0)
  /\ "b.log" \in ResultFiles({"ok"})
  /\ Cardinality(ingested) = 2
  /\ Len(store) = 1

\* C2: a name is in the completed set, in memory or in the tracker file a run
\* wrote, only if the file gave at least one parsed event in the run that
\* marked it and the fingerprint of every matching line it then had is in the
\* logs table.
C2_MarkedMeansArchived ==
  /\ \A f \in CompletedIn(tracker) :
       /\ savedMarks[f] # NoMark
       /\ NumMatching(savedMarks[f].body) >= 1
       /\ Archived(savedMarks[f].body)
  /\ \A f \in MarkedThisRun :
       /\ NumMatching(runMarks[f].body) >= 1
       /\ Archived(runMarks[f].body)
  /\ pc # "idle" =>
       \A f \in Range(parsed_files) :
         f \in MarkedThisRun \/ (~force /\ f \in CompletedIn(tracker0))

\* Both files are in the tracker file at the end of a run, in a history in
\* which something failed.
C2_Witness ==
  /\ pc = "done"
  /\ CompletedIn(tracker) = LogNames
  /\ faults >= 1

\* C3: an unforced run never hands a file that the tracker file listed at its
\* start to process_log_file; and while every run so far was unforced and
\* ended normally, no file has been marked complete more than once.
C3_CompletedFilesSkipped ==
  /\ (pc # "idle" /\ ~force) =>
       /\ ResultFiles(AllTags) \cap CompletedIn(tracker0) = {}
       /\ pc \in {"insert", "push", "returned"} =>
            all_logs[idx] \notin CompletedIn(tracker0)
  /\ clean => \A f \in AllNames : completions[f] <= 1

\* Second unforced run: b.log, completed by the first, was skipped, and
\* a.log, rewritten since, was processed and marked.
C3_Witness ==
  /\ pc = "done" /\ clean /\ runs = 2
  /\ "b.log" \in CompletedIn(tracker0)
  /\ ResultFiles(AllTags) = {"a.log"}
  /\ completions["a.log"] = 1 /\ completions["b.log"] = 1

ZeroKept(f) == zeroIn[f] \in {"unforced", "forced_saved"}

\* C4 as claimed: a file that parsed to nothing is not added to the completed
\* set by that run, and between runs it is not in the tracker file, so that
\* the next unforced run processes it.
C4_ZeroFileRetried_Claimed ==
  \A f \in AllNames :
    /\ (pc # "idle" /\ ZeroThisRun(f)) => f \notin Range(parsed_files)
    /\ (pc = "idle" /\ zeroIn[f] # "no") => f \notin CompletedIn(tracker)

\* C4, amended: a file that parsed to nothing is not added to the completed
\* set by that run; if that run was unforced, or was forced and saved the
\* tracker file, the file is not in the tracker file afterwards and an
\* unforced run that comes to it does not skip it.
C4_ZeroFileRetried ==
  /\ \A f \in AllNames :
       /\ (pc # "idle" /\ ZeroThisRun(f)) => f \notin Range(parsed_files)
       /\ ZeroKept(f) => f \notin CompletedIn(tracker)
  /\ (pc = "loop" /\ idx <= Len(all_logs) /\ ~force /\ ZeroKept(all_logs[idx]))
       => all_logs[idx] \notin Range(parsed_files)

\* a.log parsed to nothing in the first run; the second, unforced run is about
\* to process it again.
C4_Witness ==
  /\ pc = "loop" /\ idx = 1 /\ runs = 2 /\ ~force
  /\ all_logs[idx] = "a.log"
  /\ zeroIn["a.log"] = "unforced"
  /\ outcome = "running"

\* The file was in the tracker file when the run began and its body is the one
\* it was marked with.
CompletedUnchanged(f) ==
  /\ f \in CompletedIn(tracker0)
  /\ savedMarks[f] # NoMark
  /\ savedMarks[f].body = files[f]

InFileLoop == pc \in {"loop", "insert", "push", "returned"}

C5_ForcedStartsEmpty ==
  /\ (pc = "check_dir" /\ force) => parsed_files = <<>>
  /\ (pc # "idle" /\ force) => Range(parsed_files) = MarkedThisRun
  /\ (pc \in {"close", "done"} /\ force) => ResultFiles(AllTags) = LogNames
  /\ pc \in {"insert", "push"} => Len(parsed) = NumMatching(files[all_logs[idx]])

\* C5 as claimed: a forced run starts from the empty set and processes every
\* listed file; archiving a completed, unchanged file again leaves the row
\* count as it was; the set saved is the set of files that gave at least one
\* parsed event in the run (read as: whose processing returned a positive
\* count).
C5_ForcedRun_Claimed ==
  /\ C5_ForcedStartsEmpty
  /\ (InFileLoop /\ force) =>
       \A i \in 1..Len(results) :
         (results[i].tag = "ok" /\ CompletedUnchanged(results[i].file))
           => results[i].added = 0
  /\ (pc \in {"close", "done"} /\ force) =>
       CompletedIn(tracker) = ResultFiles({"ok"})

\* C5, amended: a forced run starts from the empty set and processes every
\* listed file; archiving a completed, unchanged file again adds no row of
\* that file: the table grows by at most the rows that an earlier file's
\* failed store write left in the open transaction, which this file's commit
\* commits; the set saved is the set of files whose processing returned a
\* positive count.
C5_ForcedRun ==
  /\ C5_ForcedStartsEmpty
  /\ (InFileLoop /\ force) =>
       \A i \in 1..Len(results) :
         (results[i].tag = "ok" /\ CompletedUnchanged(results[i].file))
           => results[i].added <= results[i].carried
  /\ (pc \in {"close", "done"} /\ force) =>
       CompletedIn(tracker) = ResultFiles({"ok"})

\* A forced second run has archived b.log again, completed by the first run
\* and unchanged, and saved.
C5_Witness ==
  /\ pc = "done" /\ force /\ runs = 2
  /\ "b.log" \in CompletedIn(tracker0)
  /\ changes = 0
  /\ "b.log" \in ResultFiles({"ok"})
  /\ "b.log" \in CompletedIn(tracker)
  /\ Len(store) = 1

FileErrors == {"read_error", "write_error"}
LastResult == results[Len(results)]

\* A result is counted once main has handled the call's return value.
Accounted(i) == ~(i = Len(results) /\ pc \in {"push", "returned"})

RECURSIVE SumOk(_)
SumOk(k) ==
  IF k = 0 THEN 0
  ELSE SumOk(k - 1)
       + (IF results[k].tag = "ok" /\ Accounted(k) THEN results[k].n ELSE 0)

Eligible(f) == force \/ f \notin CompletedIn(tracker0)

C6_Isolated ==
  /\ pc # "idle" =>
       /\ ResultFiles(FileErrors) \cap Range(parsed_files) = {}
       /\ total_parsed = SumOk(Len(results))
  /\ (pc = "returned" /\ LastResult.tag \in FileErrors) => parsed_count = 0
  /\ pc \in {"close", "done"} =>
       \A f \in LogNames : Eligible(f) => f \in ResultFiles(AllTags)
  /\ \A i, j \in 1..Len(results) :
       i < j => NameRank(results[i].file) < NameRank(results[j].file)

C6_NoAbort ==
  (InFileLoop /\ pc' = "idle")
    => outcome' \in {"killed", "killed_in_save", "save_error"}

FileFailed == InFileLoop /\ ResultFiles(FileErrors) # {}
SaveReached ==
  pc = "close" \/ outcome \in {"killed", "killed_in_save", "save_error"}

\* C6: a file whose read or store write fails is not added to the completed
\* set and adds 0 to total_parsed; the files after it are still processed, in
\* sorted order; and the failure does not end the run: from the file loop the
\* process ends only by being killed or in save_parsed_files, and a next step
\* of main is always there to take.
C6_FileErrorIsolated ==
  /\ []C6_Isolated
  /\ [][C6_NoAbort]_vars
  /\ [](InFileLoop => ENABLED Advance)

\* Under LiveSpec: once a file has failed, the run comes to save_parsed_files
\* unless the process is killed first.
C6_Progress == FileFailed ~> SaveReached

\* a.log could not be read; b.log after it was archived and marked, and the
\* tracker file was saved.
C6_Witness ==
  /\ pc = "close"
  /\ Len(results) = 2
  /\ results[1].file = "a.log" /\ results[1].tag = "read_error"
  /\ results[2].file = "b.log" /\ results[2].tag = "ok"
  /\ tracker = TrackerList(<<"b.log">>)
  /\ total_parsed = 2

\* C7: without a Redis connection, rpush is never called, every file that is
\* not skipped is still processed, a file archived without error is marked
\* complete and saved in the tracker file, and the count in the final log line
\* is the number of parsed events of the files archived without error.
C7_ArchiveOnly ==
  (pc \in {"loop", "insert", "push", "returned", "close", "done"} /\ ~redis_conn) =>
    /\ rpushCalls = 0
    /\ pc # "push"
    /\ \A i \in 1..Len(results) :
         (results[i].tag = "ok" /\ Accounted(i)) =>
           /\ results[i].file \in Range(parsed_files)
           /\ Archived(files[results[i].file])
    /\ pc = "done" =>
         /\ \A f \in LogNames : Eligible(f) => f \in ResultFiles(AllTags)
         /\ ResultFiles({"ok"}) \subseteq CompletedIn(tracker)
         /\ summary = SumOk(Len(results))

\* A run without Redis archived b.log, marked it and reported its two events;
\* nothing was queued.
C7_Witness ==
  /\ pc = "done" /\ ~redis_conn
  /\ "b.log" \in ResultFiles({"ok"})
  /\ "b.log" \in CompletedIn(tracker)
  /\ summary = 2
  /\ Len(store) = 1
  /\ queue = <<>>

UpTo(n) == [i \in 1..n |-> i]

\* C8: rpush is called once for each parsed event, in order, whether or not
\* earlier calls raised; process_log_file then returns the parsed count and
\* the file is marked complete as it would be had no call raised.
C8_PushFailureSwallowed ==
  /\ pc = "push" => attempts = UpTo(pidx - 1)
  /\ (pc = "returned" /\ redis_conn /\ LastResult.tag = "ok") =>
       /\ attempts = UpTo(Len(parsed))
       /\ Len(parsed) = LastResult.n
       /\ parsed_count = LastResult.n
  /\ (pc # "idle" /\ redis_conn) =>
       \A i \in 1..Len(results) :
         (results[i].tag = "ok" /\ Accounted(i)) =>
           /\ results[i].file \in Range(parsed_files)
           /\ runMarks[results[i].file].attempts = UpTo(results[i].n)
  /\ (pc \in {"close", "done"} /\ redis_conn) =>
       ResultFiles({"ok"}) \subseteq CompletedIn(tracker)

\* The first push of b.log raised, the second was still made, and b.log is in
\* the saved tracker file with its two events counted.
C8_Witness ==
  /\ pc = "done" /\ redis_conn
  /\ "b.log" \in CompletedIn(tracker)
  /\ savedMarks["b.log"].failed = {1}
  /\ savedMarks["b.log"].attempts = <<1, 2>>
  /\ summary = 2
  /\ Len(queue) = 1

Queued(e) ==
  \E i \in 1..Len(queue) : Field(queue[i], "raw_message") = e.raw_message

\* C9 as claimed: every parsed event of a file that a run with a Redis
\* connection marked complete is on the queue (nothing pops in this model).
C9_AtLeastOnce_Claimed ==
  \A f \in CompletedIn(tracker) :
    (savedMarks[f] # NoMark /\ savedMarks[f].redis) =>
      \A e \in Range(ParseLines(savedMarks[f].body)) : Queued(e)

\* C9, amended: for every parsed event of a file that a run with a Redis
\* connection marked complete, that run called rpush once, and the event is
\* on the queue unless that call raised.
C9_AttemptedOnce ==
  \A f \in CompletedIn(tracker) :
    (savedMarks[f] # NoMark /\ savedMarks[f].redis) =>
      LET batch == ParseLines(savedMarks[f].body)
      IN /\ savedMarks[f].attempts = UpTo(Len(batch))
         /\ \A i \in 1..Len(batch) :
              i \notin savedMarks[f].failed => Queued(batch[i])

\* b.log is marked complete by a run with Redis in which one of its two
\* pushes raised.
C9_Witness ==
  /\ pc = "idle" /\ outcome = "finished"
  /\ "b.log" \in CompletedIn(tracker)
  /\ savedMarks["b.log"].redis
  /\ savedMarks["b.log"].failed = {2}
  /\ Len(queue) = 1

PayloadFields ==
  {"timestamp", "log_level", "component", "action", "license_type",
   "user_name", "client_ip", "raw_message"}

\* C10: every queued message is a JSON object with exactly the fields
\* timestamp, log_level, component, action, license_type, user_name,
\* client_ip and raw_message; raw_hash is not among them.
C10_PayloadFields ==
  \A i \in 1..Len(queue) :
    /\ JsonKeys(queue[i]) = PayloadFields
    /\ Len(queue[i]) = Cardinality(PayloadFields)

\* The process ends before save_parsed_files was entered.
TerminatedBeforeSave ==
  /\ pc \notin {"idle", "close", "done"}
  /\ pc' = "idle"
  /\ outcome' \notin {"finished", "save_error", "killed_in_save"}

AllAttempted ==
  /\ idx > Len(all_logs)
  /\ \A f \in LogNames : Eligible(f) => f \in ResultFiles(AllTags)

C11_SavedOnceAtEnd ==
  /\ pc \in {"check_dir", "loop", "insert", "push", "returned"}
       => tracker = tracker0
  /\ pc \in {"close", "done"}
       => (tracker = TrackerList(parsed_files) /\ AllAttempted)
  /\ (pc = "loop" /\ idx <= Len(all_logs) /\ ~force
        /\ all_logs[idx] \notin CompletedIn(tracker0))
       => ~Skips(all_logs[idx], parsed_files, force)

C11_WrittenInSaveOnly ==
  tracker' # tracker => (pc = "loop" /\ idx > Len(all_logs))

\* C11 as claimed: the tracker file is written once in a run, by
\* save_parsed_files after the loop over all files, with the whole list; a run
\* that ends before that leaves the file as it found it, and no file the run
\* had marked complete is then in the file (so that the next unforced run
\* processes each of them again).
C11_SaveOnce_Claimed ==
  /\ []C11_SavedOnceAtEnd
  /\ [][C11_WrittenInSaveOnly]_vars
  /\ [][TerminatedBeforeSave =>
          /\ tracker' = tracker0
          /\ \A f \in MarkedThisRun : f \notin CompletedIn(tracker')]_vars

\* C11, amended: as above, but of the files the run had marked complete only
\* those that the tracker file did not list when the run began are missing
\* from it afterwards; an unforced run does not skip a file that the tracker
\* file does not list.
C11_SaveOnce ==
  /\ []C11_SavedOnceAtEnd
  /\ [][C11_WrittenInSaveOnly]_vars
  /\ [][TerminatedBeforeSave =>
          /\ tracker' = tracker0
          /\ \A f \in MarkedThisRun \ CompletedIn(tracker0) :
               f \notin CompletedIn(tracker')]_vars

\* b.log was archived by a first run that was killed before its save: the
\* tracker file is still absent and the second, unforced run is processing
\* b.log again.
C11_Witness ==
  /\ runs = 2 /\ ~force /\ pc = "insert"
  /\ all_logs[idx] = "b.log"
  /\ Archived(files["b.log"])
  /\ tracker = TrackerAbsent
  /\ changes = 0

\* C12 (checked under TrackerSpec): when a run finds the tracker file
\* missing, unreadable or holding anything but a list, it skips no file, and
\* it does not end on an error of the value it loaded.
C12_CorruptRecordTolerated ==
  (runs > 0 /\ tracker0.kind # "list") =>
    /\ (pc = "loop" /\ ~force) => Len(results) = idx - 1
    /\ outcome # "tracker_type_error"

\* C13: a run that was not killed ends without the final save and summary
\* only when the store could not be opened or the log directory was missing,
\* and then the tracker file is as the run found it; after any other failure
\* the run still ends with its save and summary.
C13_OnlyTwoFatal ==
  (pc = "idle" /\ runs > 0) =>
    /\ outcome \in {"finished", "killed", "killed_in_save",
                    "store_unavailable", "no_directory"}
    /\ outcome \in {"store_unavailable", "no_directory"} => tracker = tracker0

\* C14 (ConsumerSpec): after a blpop that timed out the consumer is neither in
\* the 5-second backoff nor in any other sleep, and the last thing it logged
\* is not an error.
C14_TimeoutKeepsListening ==
  cause = "timeout" =>
    /\ cpc \notin {"backoff", "idle_sleep"}
    /\ clog # "error"

ErrorCauses == {"pop_failure", "deserialization", "handler"}

\* A step in which blpop, json.loads or process_event raised.
ErrorStep ==
  /\ cpc \in {"listening", "handling"}
  /\ cpc' # cpc
  /\ cause' \in ErrorCauses
  /\ ~interrupted'

\* C15 (ConsumerLiveSpec): a failure of blpop, of json.loads or of
\* process_event takes the consumer to the backoff sleep with the error
\* logged; from the backoff it goes nowhere but back to blpop, and it does so
\* unless it is interrupted; the loop ends only by an interrupt.
C15_ErrorsBackOff ==
  /\ [][ErrorStep => (cpc' = "backoff" /\ clog' = "error")]_vars
  /\ [][cpc = "backoff" =>
          (cpc' \in {"backoff", "listening"} \/ interrupted')]_vars
  /\ [](cpc \in {"stopped", "aborted"} => interrupted)
  /\ (cpc = "backoff") ~> (cpc = "listening" \/ interrupted)

\* The consumer is back at blpop after json.loads raised on a message.
C15_Witness ==
  /\ cpc = "listening"
  /\ cause = "deserialization"
  /\ clog = "error"
  /\ ~interrupted

\* C16 (ConsumerSpec): once an interrupt was delivered the consumer has
\* logged the shutdown message and is stopped, in whatever state the
\* interrupt found it; and a stopped consumer holds no popped message.
C16_InterruptStops ==
  interrupted =>
    /\ clog = "shutdown"
    /\ cpc = "stopped"
    /\ data = NoData

\* Positions of parsed whose rpush returned, in call order.
RECURSIVE Succeeded(_)
Succeeded(k) ==
  IF k = 0 THEN <<>>
  ELSE IF attempts[k] \in failed THEN Succeeded(k - 1)
  ELSE Append(Succeeded(k - 1), attempts[k])

\* C17 (PipeSpec): the messages of the file being published are the last
\* ones of the publishing history, in the order of the file's lines; the list
\* is the tail of that history; and the events process_event was called with
\* are its head, decoded, in the same order: nothing is handled out of order,
\* and nothing is missing but a message an interrupt found in the consumer's
\* hands.
C17_FifoOrder ==
  LET k == Len(handled)
      n == Len(published)
      inHand == IF cpc = "handling" THEN 1 ELSE 0
      ok == Succeeded(Len(attempts))
  IN /\ k + inHand + Len(queue) <= n
     /\ \A i \in 1..k : handled[i] = json_loads(published[i])
     /\ cpc = "handling" => data = published[k + 1]
     /\ queue = SubSeq(published, n - Len(queue) + 1, n)
     /\ ~interrupted => k + inHand + Len(queue) = n
     /\ n - (k + inHand + Len(queue)) <= 1
     /\ pc = "push" =>
          /\ Len(ok) <= n
          /\ \A j \in 1..Len(ok) :
               /\ published[n - Len(ok) + j] = JsonDumps(parsed[ok[j]])
               /\ json_loads(published[n - Len(ok) + j]) = parsed[ok[j]]
     /\ \A i, j \in 1..Len(all_logs) :
          i < j => NameRank(all_logs[i]) < NameRank(all_logs[j])

\* The consumer has handled the two different events of a.log, in the order
\* of its lines, while the orchestrator is still in the run that pushed them.
C17_Witness ==
  /\ Len(handled) = 2
  /\ handled[1].action = "Grant"
  /\ handled[2].action = "not granted"
  /\ pc \in {"push", "returned"}
  /\ all_logs[idx] = "a.log"
  /\ cpc = "listening"

\* C18: the meta table never holds more than one row; it holds one whenever
\* connect_db has returned, and a later open neither removes nor repeats it.
C18_MetaRowOnce ==
  /\ [](meta <= 1)
  /\ [](pc # "idle" => meta = 1)
  /\ [](outcome \in {"finished", "killed", "killed_in_save", "no_directory",
                      "listdir_error", "save_error"} => meta = 1)
  /\ [][meta = 1 => meta' = 1]_vars

\* The store has been opened a second time, after a first run that saved the
\* tracker file: there is one row.
C18_Witness ==
  /\ runs = 2 /\ pc = "check_dir"
  /\ tracker0.kind = "list"
  /\ meta = 1

ActionValues == {"Grant", "Detachment", "TimeOut", "NotGranted"}

\* C19 (ParserSpec): the action of every event parse_log_line returns is one
\* of Grant, Detachment, TimeOut, NotGranted, however the line spells the
\* keyword.
C19_ActionEnumerated ==
  returned \notin {NotParsed, NoMatch} => returned.action \in ActionValues

\* C20: rpush is not called for a file before its whole batch is committed;
\* the fingerprint of every message ever pushed is in the logs table; and a
\* file whose store write failed has no rpush call.
C20_ArchiveBeforePublish ==
  /\ \A i \in 1..Len(published) :
       Field(published[i], "raw_hash") \in Hashes(store)
  /\ pc = "insert" => attempts = <<>>
  /\ pc = "push" =>
       \A i \in 1..Len(parsed) : parsed[i].raw_hash \in Hashes(store)
  /\ (pc = "returned" /\ LastResult.tag = "write_error") => attempts = <<>>
  /\ pc # "push" => Len(attempts) \in {0, Len(parsed)}

\* With a Redis connection, the store write of a.log failed and nothing of it
\* was pushed; b.log after it was committed and its first event is pushed.
C20_Witness ==
  /\ pc = "push" /\ pidx = 2 /\ redis_conn
  /\ all_logs[idx] = "b.log"
  /\ results[1].file = "a.log" /\ results[1].tag = "write_error"
  /\ Len(published) = 1

====
